---------------------------- MODULE Spec2Model ----------------------------
(***************************************************************************)
(* Model of the resume matcher (src/app.py): the ResumeAnalyzer text       *)
(* pipeline and the /api/analyze handler.                                  *)
(*                                                                         *)
(* A text is a sequence of one-character strings, so that lower-casing,    *)
(* regular-expression matching, substring containment and tokenization are *)
(* computed character by character, as the Python code computes them.      *)
(* Real-valued scores are kept exact as integer numerators over their      *)
(* denominators; where float rounding can change an integer result, the    *)
(* result is a choice among the outcomes rounding can produce.             *)
(***************************************************************************)
EXTENDS Integers, Sequences, FiniteSets, TLC

(***************************************************************************)
(* Characters (the ASCII subset the inputs are written in).                *)
(***************************************************************************)
UpperSeq == <<"A","B","C","D","E","F","G","H","I","J","K","L","M","N","O","P","Q","R","S","T","U","V",
        "W","X","Y","Z">>

LowerSeq == <<"a","b","c","d","e","f","g","h","i","j","k","l","m","n","o","p","q","r","s","t","u","v",
        "w","x","y","z">>

DigitSeq == <<"0","1","2","3","4","5","6","7","8","9">>

\* The alphabet in code-point order (the order Python compares str by).
CodeOrder == <<"\n"," ","#","+",",","-",".","/">> \o DigitSeq \o <<":">> \o UpperSeq \o <<"_">> \o LowerSeq

Range(s) == {s[i] : i \in 1..Len(s)}

UpperSet == Range(UpperSeq)

LowerSet == Range(LowerSeq)

DigitSet == Range(DigitSeq)

AlnumSet == UpperSet \cup LowerSet \cup DigitSet

\* \w of the re module
WordSet == AlnumSet \cup {"_"}

\* \s of the re module, str.strip()'s whitespace
SpaceSet == {" ", "\n", "\t"}

Ord == [c \in Range(CodeOrder) |-> CHOOSE i \in 1..Len(CodeOrder) : CodeOrder[i] = c]

ToLower == [c \in UpperSet |-> LowerSeq[CHOOSE i \in 1..26 : UpperSeq[i] = c]]

\* str.lower()
lower(text) ==
    [i \in 1..Len(text) |-> IF text[i] \in UpperSet THEN ToLower[text[i]] ELSE text[i]] \o <<>>

\* str.isalnum()
isalnum(token) == Len(token) > 0 /\ \A i \in 1..Len(token) : token[i] \in AlnumSet

\* not str.strip(): the text is empty or all whitespace
IsBlank(text) == \A i \in 1..Len(text) : text[i] \in SpaceSet

\* the literal lit occurs in text at index i
MatchAt(lit, text, i) ==
    /\ i >= 1
    /\ i + Len(lit) - 1 <= Len(text)
    /\ \A j \in 1..Len(lit) : text[i + j - 1] = lit[j]

\* Python's  lit in text
Contains(lit, text) == \E i \in 1..(Len(text) - Len(lit) + 1) : MatchAt(lit, text, i)

\* str < str (code-point lexicographic order)
StrLess(a, b) ==
    \E k \in 1..Len(b) :
        /\ \A j \in 1..(k - 1) : j <= Len(a) /\ a[j] = b[j]
        /\ k > Len(a) \/ (k <= Len(a) /\ Ord[a[k]] < Ord[b[k]])

Min(a, b) == IF a <= b THEN a ELSE b

\* Op(e), with e evaluated once
Apply(Op(_), e) == CHOOSE r \in {Op(v) : v \in {e}} : TRUE

(***************************************************************************)
(* ResumeAnalyzer.__init__: the fluff patterns.  Each pattern is a list of *)
(* literals l1, l2, ... standing for the regular expression l1.*l2.* ...   *)
(***************************************************************************)
fluff_patterns == <<
    << <<"e","q","u","a","l"," ","o","p","p","o","r","t","u","n","i","t","y"," ","e","m","p","l",
        "o","y","e","r">> >>,
    << <<"w","e"," ","a","r","e"," ","c","o","m","m","i","t","t","e","d"," ","t","o">>, <<"d","i","v","e","r","s","i","t","y">> >>,
    << <<"b","e","n","e","f","i","t","s"," ","i","n","c","l","u","d","e">> >>,
    << <<"o","u","r"," ","c","o","m","p","a","n","y">>, <<"c","u","l","t","u","r","e">> >>,
    << <<"a","b","o","u","t"," ","u","s",":">> >>,
    << <<"c","o","m","p","a","n","y"," ","o","v","e","r","v","i","e","w">> >>,
    << <<"w","h","y"," ","j","o","i","n"," ","u","s">> >>,
    << <<"p","e","r","k","s"," ","a","n","d"," ","b","e","n","e","f","i","t","s">> >>,
    << <<"w","e"," ","o","f","f","e","r">>, <<"c","o","m","p","e","t","i","t","i","v","e">> >> >>

\* re.IGNORECASE: the pattern's (lower-case) literal matches either case
MatchAtIgnoreCase(lit, text, i) ==
    /\ i + Len(lit) - 1 <= Len(text)
    /\ \A j \in 1..Len(lit) :
          LET c == text[i + j - 1] IN (IF c \in UpperSet THEN ToLower[c] ELSE c) = lit[j]

\* the literals lits[k..] occur in this order, without overlap, from index i on
\* (re.DOTALL: the .* between them crosses line breaks)
RECURSIVE RestMatches(_, _, _, _)
RestMatches(lits, k, text, i) ==
    \/ k > Len(lits)
    \/ \E m \in i..(Len(text) - Len(lits[k]) + 1) :
          /\ MatchAtIgnoreCase(lits[k], text, m)
          /\ RestMatches(lits, k + 1, text, m + Len(lits[k]))

\* where re.search finds the pattern (the leftmost start), 0 when it does not match
FluffStart(lits, text) ==
    LET starts == {i \in 1..(Len(text) - Len(lits[1]) + 1) :
                      /\ MatchAtIgnoreCase(lits[1], text, i)
                      /\ RestMatches(lits, 2, text, i + Len(lits[1]))}
    IN IF starts = {} THEN 0 ELSE CHOOSE i \in starts : \A j \in starts : i <= j

\* re.sub(pattern, '', text, flags=re.IGNORECASE | re.DOTALL): the trailing .*
\* runs to the end of the text, so the match is everything from its start on
re_sub_fluff(lits, text) ==
    LET i == FluffStart(lits, text) IN IF i = 0 THEN text ELSE SubSeq(text, 1, i - 1)

RECURSIVE ApplyFluff(_, _)
ApplyFluff(k, text) ==
    IF k > Len(fluff_patterns) THEN text
    ELSE ApplyFluff(k + 1, re_sub_fluff(fluff_patterns[k], text))

\* the same loop with the lower-casing done last and the patterns matched
\* case-sensitively
RECURSIVE ApplyFluffCased(_, _)
ApplyFluffCased(k, text) ==
    IF k > Len(fluff_patterns) THEN text
    ELSE LET lits == fluff_patterns[k]
             starts == {i \in 1..(Len(text) - Len(lits[1]) + 1) :
                           /\ MatchAt(lits[1], text, i)
                           /\ \A n \in 2..Len(lits) : Contains(lits[n], SubSeq(text, i + Len(lits[1]), Len(text)))}
             cut == IF starts = {} THEN text
                    ELSE SubSeq(text, 1, (CHOOSE i \in starts : \A j \in starts : i <= j) - 1)
         IN ApplyFluffCased(k + 1, cut)

clean_job_description_lower_last(jd_text) == lower(ApplyFluffCased(1, jd_text))

clean_job_description_keep_case(jd_text) == ApplyFluff(1, jd_text)

clean_job_description(jd_text) == ApplyFluff(1, lower(jd_text))


(***************************************************************************)
(* ResumeAnalyzer.__init__: stop words.  stopwords.words('english') of the *)
(* NLTK corpus; only its alphanumeric entries longer than two characters   *)
(* are listed, the others can never equal a token extract_keywords keeps.  *)
(***************************************************************************)
stop_words == {
    <<"m","y","s","e","l","f">>,
    <<"o","u","r">>,
    <<"o","u","r","s">>,
    <<"o","u","r","s","e","l","v","e","s">>,
    <<"y","o","u">>,
    <<"y","o","u","r">>,
    <<"y","o","u","r","s">>,
    <<"y","o","u","r","s","e","l","f">>,
    <<"y","o","u","r","s","e","l","v","e","s">>,
    <<"h","i","m">>,
    <<"h","i","s">>,
    <<"h","i","m","s","e","l","f">>,
    <<"s","h","e">>,
    <<"h","e","r">>,
    <<"h","e","r","s">>,
    <<"h","e","r","s","e","l","f">>,
    <<"i","t","s">>,
    <<"i","t","s","e","l","f">>,
    <<"t","h","e","y">>,
    <<"t","h","e","m">>,
    <<"t","h","e","i","r">>,
    <<"t","h","e","i","r","s">>,
    <<"t","h","e","m","s","e","l","v","e","s">>,
    <<"w","h","a","t">>,
    <<"w","h","i","c","h">>,
    <<"w","h","o">>,
    <<"w","h","o","m">>,
    <<"t","h","i","s">>,
    <<"t","h","a","t">>,
    <<"t","h","e","s","e">>,
    <<"t","h","o","s","e">>,
    <<"a","r","e">>,
    <<"w","a","s">>,
    <<"w","e","r","e">>,
    <<"b","e","e","n">>,
    <<"b","e","i","n","g">>,
    <<"h","a","v","e">>,
    <<"h","a","s">>,
    <<"h","a","d">>,
    <<"h","a","v","i","n","g">>,
    <<"d","o","e","s">>,
    <<"d","i","d">>,
    <<"d","o","i","n","g">>,
    <<"t","h","e">>,
    <<"a","n","d">>,
    <<"b","u","t">>,
    <<"b","e","c","a","u","s","e">>,
    <<"u","n","t","i","l">>,
    <<"w","h","i","l","e">>,
    <<"f","o","r">>,
    <<"w","i","t","h">>,
    <<"a","b","o","u","t">>,
    <<"a","g","a","i","n","s","t">>,
    <<"b","e","t","w","e","e","n">>,
    <<"i","n","t","o">>,
    <<"t","h","r","o","u","g","h">>,
    <<"d","u","r","i","n","g">>,
    <<"b","e","f","o","r","e">>,
    <<"a","f","t","e","r">>,
    <<"a","b","o","v","e">>,
    <<"b","e","l","o","w">>,
    <<"f","r","o","m">>,
    <<"d","o","w","n">>,
    <<"o","u","t">>,
    <<"o","f","f">>,
    <<"o","v","e","r">>,
    <<"u","n","d","e","r">>,
    <<"a","g","a","i","n">>,
    <<"f","u","r","t","h","e","r">>,
    <<"t","h","e","n">>,
    <<"o","n","c","e">>,
    <<"h","e","r","e">>,
    <<"t","h","e","r","e">>,
    <<"w","h","e","n">>,
    <<"w","h","e","r","e">>,
    <<"w","h","y">>,
    <<"h","o","w">>,
    <<"a","l","l">>,
    <<"a","n","y">>,
    <<"b","o","t","h">>,
    <<"e","a","c","h">>,
    <<"f","e","w">>,
    <<"m","o","r","e">>,
    <<"m","o","s","t">>,
    <<"o","t","h","e","r">>,
    <<"s","o","m","e">>,
    <<"s","u","c","h">>,
    <<"n","o","r">>,
    <<"n","o","t">>,
    <<"o","n","l","y">>,
    <<"o","w","n">>,
    <<"s","a","m","e">>,
    <<"t","h","a","n">>,
    <<"t","o","o">>,
    <<"v","e","r","y">>,
    <<"c","a","n">>,
    <<"w","i","l","l">>,
    <<"j","u","s","t">>,
    <<"d","o","n">>,
    <<"s","h","o","u","l","d">>,
    <<"n","o","w">>,
    <<"a","i","n">>,
    <<"a","r","e","n">>,
    <<"c","o","u","l","d","n">>,
    <<"d","i","d","n">>,
    <<"d","o","e","s","n">>,
    <<"h","a","d","n">>,
    <<"h","a","s","n">>,
    <<"h","a","v","e","n">>,
    <<"i","s","n">>,
    <<"m","i","g","h","t","n">>,
    <<"m","u","s","t","n">>,
    <<"n","e","e","d","n">>,
    <<"s","h","a","n">>,
    <<"s","h","o","u","l","d","n">>,
    <<"w","a","s","n">>,
    <<"w","e","r","e","n">>,
    <<"w","o","n">>,
    <<"w","o","u","l","d","n">> }

(***************************************************************************)
(* extract_hard_skills: the tech patterns and the fixed vocabulary.        *)
(***************************************************************************)
tech_keywords == <<
    <<"p","y","t","h","o","n">>,
    <<"j","a","v","a">>,
    <<"j","a","v","a","s","c","r","i","p","t">>,
    <<"s","q","l">>,
    <<"a","w","s">>,
    <<"a","z","u","r","e">>,
    <<"g","c","p">>,
    <<"d","o","c","k","e","r">>,
    <<"k","u","b","e","r","n","e","t","e","s">>,
    <<"r","e","a","c","t">>,
    <<"a","n","g","u","l","a","r">>,
    <<"v","u","e">>,
    <<"n","o","d","e">>,
    <<"t","e","n","s","o","r","f","l","o","w">>,
    <<"p","y","t","o","r","c","h">>,
    <<"s","c","i","k","i","t","-","l","e","a","r","n">>,
    <<"p","a","n","d","a","s">>,
    <<"n","u","m","p","y">>,
    <<"g","i","t">>,
    <<"c","i","/","c","d">>,
    <<"a","g","i","l","e">>,
    <<"s","c","r","u","m">>,
    <<"r","e","s","t">>,
    <<"a","p","i">>,
    <<"g","r","a","p","h","q","l">>,
    <<"m","o","n","g","o","d","b">>,
    <<"p","o","s","t","g","r","e","s","q","l">>,
    <<"m","y","s","q","l">>,
    <<"r","e","d","i","s">>,
    <<"e","l","a","s","t","i","c","s","e","a","r","c","h">>,
    <<"m","a","c","h","i","n","e"," ","l","e","a","r","n","i","n","g">>,
    <<"d","a","t","a"," ","a","n","a","l","y","s","i","s">>,
    <<"d","e","e","p"," ","l","e","a","r","n","i","n","g">>,
    <<"c","l","o","u","d"," ","c","o","m","p","u","t","i","n","g">>,
    <<"d","e","v","o","p","s">>,
    <<"m","i","c","r","o","s","e","r","v","i","c","e","s">> >>

IsWordAt(text, i) == i >= 1 /\ i <= Len(text) /\ text[i] \in WordSet

\* \b between index i - 1 and index i
WordBoundary(text, i) == IsWordAt(text, i - 1) # IsWordAt(text, i)

\* the last index of the run of characters of set S that starts at index i
\* (i - 1 when text[i] is not in S)
RunEnd(S, text, i) ==
    (CHOOSE j \in i..(Len(text) + 1) :
        /\ j = Len(text) + 1 \/ text[j] \notin S
        /\ \A k \in i..(j - 1) : text[k] \in S) - 1

\* [A-Z][a-z]+(?:\s+[A-Z][a-z]+)*\b  from index i: the end of the match, 0 if none.
\* The greedy chain of capitalized words is given up word by word (backtracking)
\* until the position after it is a word boundary.
RECURSIVE CapWordsEnd(_, _)
CapWordsEnd(text, i) ==
    IF ~(i + 1 <= Len(text) /\ text[i] \in UpperSet /\ text[i + 1] \in LowerSet) THEN 0
    ELSE LET e    == RunEnd(LowerSet, text, i + 1)
             j    == RunEnd(SpaceSet, text, e + 1) + 1
             more == IF j > e + 1 THEN CapWordsEnd(text, j) ELSE 0
         IN IF more # 0 THEN more
            ELSE IF WordBoundary(text, e + 1) THEN e ELSE 0

\* the end of the match of tech pattern p that starts at index i, 0 if none
TechMatchEnd(p, text, i) ==
    CASE p = 1 ->   \* \b[A-Z][a-z]+(?:\s+[A-Z][a-z]+)*\b
            IF WordBoundary(text, i) THEN CapWordsEnd(text, i) ELSE 0
      [] p = 2 ->   \* \b[A-Z]{2,}\b
            LET e == RunEnd(UpperSet, text, i)
            IN IF WordBoundary(text, i) /\ e >= i + 1 /\ WordBoundary(text, e + 1)
               THEN e ELSE 0
      [] p = 3 ->   \* \b\w+\.js\b
            LET e == RunEnd(WordSet, text, i)
            IN IF /\ WordBoundary(text, i) /\ e >= i
                  /\ MatchAt(<<".","j","s">>, text, e + 1)
                  /\ WordBoundary(text, e + 4)
               THEN e + 3 ELSE 0
      [] p = 4 ->   \* \bC\+\+\b
            IF WordBoundary(text, i) /\ MatchAt(<<"C","+","+">>, text, i) /\ WordBoundary(text, i + 3)
            THEN i + 2 ELSE 0
      [] p = 5 ->   \* \bC#\b
            IF WordBoundary(text, i) /\ MatchAt(<<"C","#">>, text, i) /\ WordBoundary(text, i + 2)
            THEN i + 1 ELSE 0

NumTechPatterns == 5

\* re.findall(pattern, text): the non-overlapping matches, scanning from the left
RECURSIVE FindAll(_, _, _)
FindAll(p, text, i) ==
    LET starts == {k \in i..Len(text) : TechMatchEnd(p, text, k) # 0}
    IN IF starts = {} THEN {}
       ELSE LET s == CHOOSE k \in starts : \A j \in starts : k <= j
                e == TechMatchEnd(p, text, s)
            IN {SubSeq(text, s, e)} \cup FindAll(p, text, e + 1)

extract_hard_skills(text) ==
    LET text_lower == lower(text)
    IN UNION {FindAll(p, text, 1) : p \in 1..NumTechPatterns}
         \cup {tech_keywords[k] : k \in {n \in 1..Len(tech_keywords) : Contains(tech_keywords[n], text_lower)}}

(***************************************************************************)
(* extract_keywords.  word_tokenize (NLTK) is modelled by what it does on  *)
(* the alphabet above: white space separates tokens; a comma, colon or     *)
(* hash sign is a token of its own; a period is a token of its own when it *)
(* ends a sentence (white space or the end of the text follows it); every  *)
(* other character stays inside its word ("node.js", "c++", "text-based"). *)
(***************************************************************************)
SplitPunct == {",", ":", "#"}

\* the character at index i is a token of its own
IsPunctToken(text, i) ==
    \/ text[i] \in SplitPunct
    \/ text[i] = "." /\ (i = Len(text) \/ text[i + 1] \in SpaceSet)

\* the character at index i is inside a word token
InToken(text, i) == i >= 1 /\ i <= Len(text) /\ text[i] \notin SpaceSet /\ ~IsPunctToken(text, i)

word_tokenize(text) ==
    LET starts == SelectSeq([i \in 1..Len(text) |-> i],
                            LAMBDA i : \/ IsPunctToken(text, i)
                                       \/ InToken(text, i) /\ ~InToken(text, i - 1))
        end(i) == IF IsPunctToken(text, i) THEN i
                  ELSE CHOOSE e \in i..Len(text) :
                          /\ ~InToken(text, e + 1)
                          /\ \A k \in i..e : InToken(text, k)
    IN [n \in 1..Len(starts) |-> SubSeq(text, starts[n], end(starts[n]))] \o <<>>

SelectKeywords(tokens) ==
    SelectSeq(tokens, LAMBDA token : isalnum(token) /\ Len(token) > 2 /\ token \notin stop_words)

\* ' '.join(keywords[i:i+n])
RECURSIVE Join(_, _, _)
Join(keywords, i, n) ==
    IF n = 1 THEN keywords[i] ELSE keywords[i] \o <<" ">> \o Join(keywords, i + 1, n - 1)

NGrams(keywords, n) ==
    IF Len(keywords) < n THEN <<>>
    ELSE [i \in 1..(Len(keywords) - n + 1) |-> Join(keywords, i, n)]

extract_keywords(text) ==
    LET keywords == SelectKeywords(word_tokenize(lower(text)))
    IN keywords \o NGrams(keywords, 2) \o NGrams(keywords, 3)

(***************************************************************************)
(* find_repeated_phrases.  A Counter, and the dict built from it, iterate  *)
(* in insertion order: they are modelled as the sequence of their items    *)
(* <<key, count>> in the order of the keys' first occurrence.              *)
(***************************************************************************)
Count(seq, k) == Cardinality({i \in 1..Len(seq) : seq[i] = k})

FirstIndex(seq, k) == CHOOSE i \in 1..Len(seq) : seq[i] = k /\ \A j \in 1..(i - 1) : seq[j] # k

\* Counter(keywords).items()
CounterItems(seq) ==
    LET firsts == SelectSeq([i \in 1..Len(seq) |-> i], LAMBDA i : \A j \in 1..(i - 1) : seq[j] # seq[i])
    IN [n \in 1..Len(firsts) |-> <<seq[firsts[n]], Count(seq, seq[firsts[n]])>>] \o <<>>

MinRepeat == 2

find_repeated_phrases(text) ==
    SelectSeq(CounterItems(extract_keywords(text)), LAMBDA item : item[2] >= MinRepeat)

(***************************************************************************)
(* extract_implicit_keywords                                               *)
(***************************************************************************)
implicit_map == <<
    [phrase |-> <<"c","r","o","s","s"," ","f","u","n","c","t","i","o","n","a","l">>, skills |-> {"communication", "collaboration", "teamwork"}],
    [phrase |-> <<"e","n","d"," ","t","o"," ","e","n","d">>, skills |-> {"project management", "ownership", "accountability"}],
    [phrase |-> <<"f","a","s","t"," ","p","a","c","e","d">>, skills |-> {"prioritization", "time management", "adaptability"}],
    [phrase |-> <<"s","e","l","f"," ","s","t","a","r","t","e","r">>, skills |-> {"initiative", "proactive", "independent"}],
    [phrase |-> <<"s","t","a","k","e","h","o","l","d","e","r">>, skills |-> {"communication", "presentation", "relationship"}] >>

extract_implicit_keywords(text) ==
    LET text_lower == lower(text)
    IN UNION {implicit_map[k].skills :
                 k \in {n \in 1..Len(implicit_map) : Contains(implicit_map[n].phrase, text_lower)}}

(***************************************************************************)
(* sorted(): the stable sorts calculate_match_score uses.                  *)
(***************************************************************************)
\* sorted(items, key=lambda x: x[1], reverse=True): descending count, equal
\* counts in their original order
RECURSIVE InsertByCount(_, _)
InsertByCount(sorted, item) ==
    IF sorted = <<>> THEN <<item>>
    ELSE IF Head(sorted)[2] >= item[2] THEN <<Head(sorted)>> \o InsertByCount(Tail(sorted), item)
    ELSE <<item>> \o sorted

RECURSIVE SortByCountDesc(_, _)
SortByCountDesc(items, n) ==
    IF n = 0 THEN <<>> ELSE InsertByCount(SortByCountDesc(items, n - 1), items[n])

\* the ascending stable sort, reversed afterwards: equal counts end up in
\* the reverse of their original order
RECURSIVE InsertByCountAsc(_, _)
InsertByCountAsc(sorted, item) ==
    IF sorted = <<>> THEN <<item>>
    ELSE IF Head(sorted)[2] <= item[2] THEN <<Head(sorted)>> \o InsertByCountAsc(Tail(sorted), item)
    ELSE <<item>> \o sorted

RECURSIVE SortByCountAsc(_, _)
SortByCountAsc(items, n) ==
    IF n = 0 THEN <<>> ELSE InsertByCountAsc(SortByCountAsc(items, n - 1), items[n])

Reverse(seq) == [i \in 1..Len(seq) |-> seq[Len(seq) + 1 - i]]

First(seq, n) == SubSeq(seq, 1, Min(n, Len(seq)))

TopRepeated == 3

top_repeated_reversed_ties(jd_repeated) ==
    First(Reverse(SortByCountAsc(jd_repeated, Len(jd_repeated))), TopRepeated)

top_repeated(jd_repeated) == First(SortByCountDesc(jd_repeated, Len(jd_repeated)), TopRepeated)

\* the distinct elements of seq, in the order of their first occurrence
Distinct(seq) ==
    LET firsts == SelectSeq([i \in 1..Len(seq) |-> i], LAMBDA i : \A j \in 1..(i - 1) : seq[j] # seq[i])
    IN [n \in 1..Len(firsts) |-> seq[firsts[n]]] \o <<>>

\* sorted(list(S)) for a set S of strings given as the distinct elements of seq:
\* ascending code-point order
\* the number of elements of seq less than each of its elements
Ranks(seq) == [i \in 1..Len(seq) |-> Cardinality({j \in 1..Len(seq) : StrLess(seq[j], seq[i])})] \o <<>>

SortedStrs(strs) ==
    Apply(LAMBDA seq :
            Apply(LAMBDA rank : [k \in 1..Len(seq) |-> seq[CHOOSE i \in 1..Len(seq) : rank[i] = k - 1]] \o <<>>,
                  Ranks(seq)),
          strs)

\* a set of strings as a sequence without repetition
RECURSIVE SeqOfSet(_)
SeqOfSet(S) ==
    IF S = {} THEN <<>> ELSE LET s == CHOOSE x \in S : TRUE IN <<s>> \o SeqOfSet(S \ {s})

(***************************************************************************)
(* Scores.  A float score is kept as a fraction num/den of integers.       *)
(***************************************************************************)
Frac(n, d) == [num |-> n, den |-> d]

\* round(x) for x >= 0, halves up
int_rounded(x) == (2 * x.num + x.den) \div (2 * x.den)

\* int(x) for x >= 0: truncation
int(x) == x.num \div x.den

\* x < n
Below(x, n) == x.num < n * x.den

\* (len(part) / len(whole) * 100) if whole else 0
Percent(part, whole) ==
    IF whole # {} THEN Frac(100 * Cardinality(part), Cardinality(whole)) ELSE Frac(0, 1)

keyword_score_of_unmatched(matched_keywords, jd_keywords) ==
    Percent(jd_keywords \ matched_keywords, jd_keywords)

keyword_score(matched_keywords, jd_keywords) == Percent(matched_keywords, jd_keywords)

hard_skills_score(matched_hard_skills, jd_hard_skills) == Percent(matched_hard_skills, jd_hard_skills)

(***************************************************************************)
(* TfidfVectorizer().fit_transform([jd, resume]) and cosine_similarity.    *)
(* Defaults of scikit-learn: tokens are the runs of two or more word       *)
(* characters, idf = ln((1 + 2) / (1 + df)) + 1, which is 1 for a term of  *)
(* both documents and ln(1.5) + 1 for a term of one.  The square of the    *)
(* latter, 1.9753..., is taken as IdfSqNum / IdfSqDen, and the cosine is   *)
(* computed in fixed point, to 1 / CovScale.                               *)
(*                                                                         *)
(* The float arithmetic of the library rounds.  The error (about 1e-16) is *)
(* far below the resolution kept here, except where the exact value is a   *)
(* whole number that int() then truncates: the cosine of two parallel rows *)
(* (two texts with the same term counts) is exactly 1, and the library     *)
(* returns 1 or one of its float neighbours, 0.9999999999999998 or         *)
(* 1.0000000000000002.  Which one depends on the order of its sums, so all *)
(* three are outcomes; a neighbour is kept as 1 -+ 1 / (100 * FloatScale). *)
(***************************************************************************)
IdfSqNum == 79

IdfSqDen == 40

CovScale == 1000

FloatScale == 1000

\* re.findall(r"(?u)\b\w\w+\b", text)
tfidf_tokens(text) ==
    LET starts == SelectSeq([i \in 1..Len(text) |-> i],
                            LAMBDA i : /\ IsWordAt(text, i) /\ ~IsWordAt(text, i - 1)
                                       /\ IsWordAt(text, i + 1))
    IN [n \in 1..Len(starts) |-> SubSeq(text, starts[n], RunEnd(WordSet, text, starts[n]))] \o <<>>

\* the sum of f(terms[1]), ..., f(terms[n])
RECURSIVE SumOver(_, _, _)
SumOver(f(_), terms, n) == IF n = 0 THEN 0 ELSE f(terms[n]) + SumOver(f, terms, n - 1)

\* the greatest r in lo..hi with r * r <= x  (lo * lo <= x)
RECURSIVE ISqrt(_, _, _)
ISqrt(x, lo, hi) ==
    IF lo = hi THEN lo
    ELSE LET mid == (lo + hi + 1) \div 2
         IN IF mid * mid <= x THEN ISqrt(x, mid, hi) ELSE ISqrt(x, lo, mid - 1)

\* the squared norms of the two tf-idf rows and their dot product; each is
\* scaled by IdfSqDen
TfidfProducts(doc0, doc1) ==
    LET terms0 == Distinct(doc0)
        terms1 == Distinct(doc1)
        tf0(w) == Count(doc0, w)
        tf1(w) == Count(doc1, w)
        idfsq(w) == IF w \in Range(doc0) /\ w \in Range(doc1) THEN IdfSqDen ELSE IdfSqNum
        sq0(w) == idfsq(w) * tf0(w) * tf0(w)
        sq1(w) == idfsq(w) * tf1(w) * tf1(w)
        both(w) == IdfSqDen * tf0(w) * tf1(w)
    IN [norm0 |-> SumOver(sq0, terms0, Len(terms0)),
        norm1 |-> SumOver(sq1, terms1, Len(terms1)),
        dot   |-> SumOver(both, terms0, Len(terms0))]

\* cosine_similarity(tfidf_matrix[0:1], tfidf_matrix[1:2])[0][0], times CovScale,
\* for rows that are not parallel
tfidf_cosine(p) ==
    ISqrt(((CovScale * p.dot) \div p.norm0) * ((CovScale * p.dot) \div p.norm1), 0, 2 * CovScale)

\* lines 169-175: the values similarity * 100 can take; 0 when fit_transform
\* raises (empty vocabulary) and when a row is all zero (no common term)
coverage_score(jd_cleaned, resume_lower) ==
    LET doc0 == tfidf_tokens(jd_cleaned)
        doc1 == tfidf_tokens(resume_lower)
        p    == TfidfProducts(doc0, doc1)
    IN IF doc0 = <<>> /\ doc1 = <<>> THEN {Frac(0, 1)}
       ELSE IF p.dot = 0 THEN {Frac(0, 1)}
       ELSE IF p.dot * p.dot = p.norm0 * p.norm1
            THEN {Frac(100 * FloatScale + d, FloatScale) : d \in {-1, 0, 1}}
       ELSE {Frac(tfidf_cosine(p) * ((100 * FloatScale) \div CovScale), FloatScale)}

\* int(keyword_score * 0.5 + hard_skills_score * 0.5 + coverage_score * 0.2)
overall_score_overweight(kw, hs, cov) ==
    (5 * kw.num * hs.den * cov.den + 5 * hs.num * kw.den * cov.den + 2 * cov.num * kw.den * hs.den)
        \div (10 * kw.den * hs.den * cov.den)

\* int(keyword_score * 0.4 + hard_skills_score * 0.4 + coverage_score * 0.2)
overall_score(kw, hs, cov) ==
    (4 * kw.num * hs.den * cov.den + 4 * hs.num * kw.den * cov.den + 2 * cov.num * kw.den * hs.den)
        \div (10 * kw.den * hs.den * cov.den)

(***************************************************************************)
(* calculate_match_score                                                   *)
(***************************************************************************)
matched(jd_set, resume_set) == jd_set \cap resume_set

missing_swapped(jd_set, resume_set) == resume_set \ jd_set

missing(jd_set, resume_set) == jd_set \ resume_set

\* lines 149-181: the locals of calculate_match_score up to the scores, cov
\* being the value coverage_score took
match_locals(resume_text, jd_text, cov) ==
    LET jd_cleaned          == clean_job_description(jd_text)
        resume_lower        == lower(resume_text)
        jd_keyword_seq      == extract_keywords(jd_cleaned)
        resume_keyword_seq  == extract_keywords(resume_lower)
        jd_keywords         == Range(jd_keyword_seq)   \* set(...)
        resume_keywords     == Range(resume_keyword_seq)
        jd_hard_skills      == extract_hard_skills(jd_cleaned)
        resume_hard_skills  == extract_hard_skills(resume_lower)
        matched_keywords    == matched(jd_keywords, resume_keywords)
        missing_keywords    == missing(jd_keywords, resume_keywords)
        matched_hard_skills == matched(jd_hard_skills, resume_hard_skills)
        missing_hard_skills == missing(jd_hard_skills, resume_hard_skills)
        kw                  == keyword_score(matched_keywords, jd_keywords)
        hs                  == hard_skills_score(matched_hard_skills, jd_hard_skills)
    IN [jd_cleaned          |-> jd_cleaned,
        jd_keyword_seq      |-> jd_keyword_seq,
        jd_keywords         |-> jd_keywords,
        resume_keywords     |-> resume_keywords,
        jd_hard_skills      |-> jd_hard_skills,
        resume_hard_skills  |-> resume_hard_skills,
        jd_repeated         |-> find_repeated_phrases(jd_cleaned),
        jd_implicit         |-> extract_implicit_keywords(jd_cleaned),
        matched_keywords    |-> matched_keywords,
        missing_keywords    |-> missing_keywords,
        matched_hard_skills |-> matched_hard_skills,
        missing_hard_skills |-> missing_hard_skills,
        keyword_score       |-> kw,
        hard_skills_score   |-> hs,
        coverage_score      |-> cov,
        overall_score       |-> overall_score(kw, hs, cov)]

ListLimit == 5

KeywordCap == 30

AdviceThreshold == 50

\* list(S)[:5]: a set iterates in no fixed order, so any ListLimit of its
\* members (all of them when there are fewer) can be the ones listed
FirstOfSet(S) == {T \in SUBSET S : Cardinality(T) = Min(ListLimit, Cardinality(S))}

OptionalLine(cond, line) == IF cond THEN <<line>> ELSE <<>>

\* the missing-skills line appended without its condition
recommendations_unguarded(f, shown_skills, shown_implicit) ==
    <<[kind |-> "missing_hard_skills", count |-> Min(ListLimit, Cardinality(f.missing_hard_skills)),
       items |-> shown_skills]>>
    \o OptionalLine(top_repeated(f.jd_repeated) # <<>>,
                    [kind |-> "repeated_phrases",
                     items |-> [i \in 1..Len(top_repeated(f.jd_repeated)) |-> top_repeated(f.jd_repeated)[i][1]]])
    \o OptionalLine(f.jd_implicit # {}, [kind |-> "implicit_skills", items |-> shown_implicit])
    \o OptionalLine(Below(f.keyword_score, AdviceThreshold), [kind |-> "keyword_advice"])
    \o OptionalLine(Below(f.hard_skills_score, AdviceThreshold), [kind |-> "hard_skills_advice"])

\* lines 183-209.  A recommendation is kept as a record of its kind and of
\* what its text lists.
recommendations(f, shown_skills, shown_implicit) ==
    LET top == top_repeated(f.jd_repeated)
    IN OptionalLine(Cardinality(f.missing_hard_skills) > 0,
                    [kind |-> "missing_hard_skills",
                     count |-> Min(ListLimit, Cardinality(f.missing_hard_skills)),
                     items |-> shown_skills])
       \o OptionalLine(top # <<>>,
                       [kind |-> "repeated_phrases", items |-> [i \in 1..Len(top) |-> top[i][1]] \o <<>>])
       \o OptionalLine(f.jd_implicit # {}, [kind |-> "implicit_skills", items |-> shown_implicit])
       \o OptionalLine(Below(f.keyword_score, AdviceThreshold), [kind |-> "keyword_advice"])
       \o OptionalLine(Below(f.hard_skills_score, AdviceThreshold), [kind |-> "hard_skills_advice"])

\* list(S) for a set S of elements of seq
ListOf(S, seq) == SelectSeq(Distinct(seq), LAMBDA k : k \in S)

\* lines 211-221: the returned dict
score_breakdown(f, recs) ==
    [overall_score       |-> f.overall_score,
     keyword_score       |-> int(f.keyword_score),
     hard_skills_score   |-> int(f.hard_skills_score),
     coverage_score      |-> int(f.coverage_score),
     matched_keywords    |-> First(SortedStrs(ListOf(f.matched_keywords, f.jd_keyword_seq)), KeywordCap),
     missing_keywords    |-> First(SortedStrs(ListOf(f.missing_keywords, f.jd_keyword_seq)), KeywordCap),
     matched_hard_skills |-> SortedStrs(SeqOfSet(f.matched_hard_skills)),
     missing_hard_skills |-> SortedStrs(SeqOfSet(f.missing_hard_skills)),
     recommendations     |-> recs]

(***************************************************************************)
(* extract_text_from_file and the /api/analyze handler.  An uploaded file  *)
(* is its declared content type, whether PyPDF2 can read it, and the text  *)
(* of its pages.                                                           *)
(***************************************************************************)
PdfType == "application/pdf"

ImageMessage == <<"I","m","a","g","e"," ","u","p","l","o","a","d"," ","n","o","t"," ","s","u","p","p","o",
        "r","t","e","d","."," ","P","l","e","a","s","e"," ","u","p","l","o","a","d"," ","a",
        " ","t","e","x","t","-","b","a","s","e","d"," ","P","D","F"," ","r","e","s","u","m",
        "e",".">>

RECURSIVE PagesText(_, _)
PagesText(pages, n) == IF n = 0 THEN <<>> ELSE PagesText(pages, n - 1) \o pages[n] \o <<"\n">>

\* the value returned, or the exception raised
extract_text_from_file(file) ==
    IF file.content_type = PdfType
    THEN IF file.readable THEN [raised |-> FALSE, text |-> PagesText(file.pages, Len(file.pages))]
         ELSE [raised |-> TRUE, text |-> <<>>]
    ELSE [raised |-> FALSE, text |-> ImageMessage]

\* calculate_match_score: the dicts it can return (they differ in which members
\* of a set of more than ListLimit the recommendations list), each with the
\* locals of the call
calculate_match_score(resume_text, jd_text) ==
    UNION {{[frame |-> f, result |-> score_breakdown(f, recommendations(f, s, m))] :
               s \in FirstOfSet(f.missing_hard_skills), m \in FirstOfSet(f.jd_implicit)} :
           f \in {match_locals(resume_text, jd_text, cov) :
                     cov \in coverage_score(clean_job_description(jd_text), lower(resume_text))}}

ErrorResponse(code, message) == [status |-> code, error |-> message, body |-> <<>>]

\* lines 243-248, given the text extract_text_from_file returned
analyze_text(resume_text, job_description) ==
    IF IsBlank(resume_text)
    THEN {[response |-> ErrorResponse(400, "Could not extract text from resume"), frame |-> <<>>]}
    ELSE {[response |-> [status |-> 200, error |-> "", body |-> <<out.result>>], frame |-> <<out.frame>>] :
             out \in calculate_match_score(resume_text, job_description)}

\* the responses analyze_resume can give to a request, each with the locals of
\* the calculate_match_score call when it makes one
analyze_resume(files, form) ==
    IF files = <<>> THEN {[response |-> ErrorResponse(400, "No resume file uploaded"), frame |-> <<>>]}
    ELSE IF form = <<>> THEN {[response |-> ErrorResponse(400, "No job description provided"), frame |-> <<>>]}
    ELSE UNION {IF extracted.raised
                THEN {[response |-> ErrorResponse(500, "Text extraction failed"), frame |-> <<>>]}
                ELSE analyze_text(extracted.text, form[1]) :
                extracted \in {extract_text_from_file(files[1])}}

(***************************************************************************)
(* The inputs.  A job description is a head, a body sentence repeated up   *)
(* to MaxRepeat times, and a tail.                                         *)
(***************************************************************************)
MaxRepeat == 2

JdHeads == { <<>>, <<"W","e"," ","a","r","e"," ","c","o","m","m","i","t","t","e","d"," ","t","o"," ","d","i",
        "v","e","r","s","i","t","y","."," ">> }

JdBodies == { <<"S","e","n","i","o","r"," ","P","y","t","h","o","n"," ","d","e","v","e","l","o","p","e",
        "r","."," ">>, <<"N","o","d","e",".","j","s"," ","a","n","d"," ","C","+","+"," ","w","i","t","h"," ","C",
        "#","."," ">> }

JdTails == { <<>>,
    <<"R","e","q","u","i","r","e","s"," ","P","y","t","h","o","n",","," ","A","W","S",","," ",
        "a","n","d"," ","s","t","r","o","n","g"," ","c","o","m","m","u","n","i","c","a","t",
        "i","o","n"," ","i","n"," ","a"," ","f","a","s","t"," ","p","a","c","e","d"," ","e",
        "n","v","i","r","o","n","m","e","n","t",".">>,
    <<"B","e","n","e","f","i","t","s"," ","i","n","c","l","u","d","e"," ","f","r","e","e"," ",
        "l","u","n","c","h",".">>,
    <<"P","y","t","h","o","n"," ","r","e","q","u","i","r","e","d",".">>,
    <<"S","t","r","o","n","g"," ","c","o","m","m","u","n","i","c","a","t","i","o","n"," ","r",
        "e","q","u","i","r","e","d",".">> }

RECURSIVE Repeat(_, _)
Repeat(s, n) == IF n = 0 THEN <<>> ELSE s \o Repeat(s, n - 1)

JdTexts == {h \o Repeat(b, r) \o tl : h \in JdHeads, b \in JdBodies, r \in 0..MaxRepeat, tl \in JdTails}

ExampleJd ==
    <<"W","e"," ","a","r","e"," ","c","o","m","m","i","t","t","e","d"," ","t","o"," ","d","i",
        "v","e","r","s","i","t","y","."," ","R","e","q","u","i","r","e","s"," ","P","y","t",
        "h","o","n",","," ","A","W","S",","," ","a","n","d"," ","s","t","r","o","n","g"," ",
        "c","o","m","m","u","n","i","c","a","t","i","o","n"," ","i","n"," ","a"," ","f","a",
        "s","t"," ","p","a","c","e","d"," ","e","n","v","i","r","o","n","m","e","n","t",".">>

ExampleResume == <<"E","x","p","e","r","i","e","n","c","e","d"," ","i","n"," ","P","y","t","h","o","n"," ",
        "a","n","d"," ","J","a","v","a"," ","d","e","v","e","l","o","p","m","e","n","t",".">>

SeniorResume == <<"S","e","n","i","o","r"," ","P","y","t","h","o","n"," ","d","e","v","e","l","o","p","e",
        "r"," ","w","i","t","h"," ","A","W","S"," ","a","n","d"," ","N","o","d","e",".","j",
        "s"," ","s","k","i","l","l","s",".">>

\* the resumes a job description is matched against: fixed ones and itself
ResumeTexts(jd) == {ExampleResume, SeniorResume, <<>>, jd}

PdfOf(pages) == [content_type |-> PdfType, readable |-> TRUE, pages |-> pages]

Uploads == { PdfOf(<<ExampleResume>>), PdfOf(<<SeniorResume, ExampleResume>>), PdfOf(<< <<>> >>), PdfOf(<<>>),
             [content_type |-> PdfType, readable |-> FALSE, pages |-> <<>>],
             [content_type |-> "image/png", readable |-> TRUE, pages |-> <<>>] }

RequestJds == { ExampleJd, <<"R","e","q","u","i","r","e","s"," ","P","y","t","h","o","n",","," ","A","W","S",","," ",
        "a","n","d"," ","s","t","r","o","n","g"," ","c","o","m","m","u","n","i","c","a","t",
        "i","o","n"," ","i","n"," ","a"," ","f","a","s","t"," ","p","a","c","e","d"," ","e",
        "n","v","i","r","o","n","m","e","n","t",".">> }

Call(op, resume_text, jd_text, files, form) ==
    [op |-> op, resume_text |-> resume_text, jd_text |-> jd_text, files |-> files, form |-> form]

Calls ==
    {Call("calculate_match_score", p[2], p[1], <<>>, <<>>) :
        p \in UNION {{<<jd, r>> : r \in ResumeTexts(jd)} : jd \in JdTexts}}
    \cup {Call("clean_job_description", <<>>, jd, <<>>, <<>>) : jd \in JdTexts}
    \cup {Call("extract_hard_skills", <<>>, jd, <<>>, <<>>) : jd \in JdTexts}
    \cup {Call("analyze_resume", <<>>, <<>>, files, form) :
             files \in {<<>>} \cup {<<u>> : u \in Uploads},
             form \in {<<>>} \cup {<<jd>> : jd \in RequestJds}}

(***************************************************************************)
(* The state: the pending call, and what the call leaves behind.           *)
(***************************************************************************)
VARIABLES
    pc,          \* "ready", "cleaned" (clean_job_description returned once), "returned"
    call,        \* the call: its entry point and arguments
    frame,       \* <<the locals of calculate_match_score>> once it has run, else <<>>
    result,      \* <<the dict calculate_match_score returned>>, else <<>>
    response,    \* <<the HTTP response of analyze_resume>>, else <<>>
    cleaned,     \* <<clean_job_description(jd_text)>>, else <<>>
    recleaned,   \* <<clean_job_description of cleaned>>, else <<>>
    hard_skills  \* <<extract_hard_skills(jd_text)>>, else <<>>

vars == <<pc, call, frame, result, response, cleaned, recleaned, hard_skills>>

Init ==
    /\ pc = "ready"
    /\ call \in Calls
    /\ frame = <<>>
    /\ result = <<>>
    /\ response = <<>>
    /\ cleaned = <<>>
    /\ recleaned = <<>>
    /\ hard_skills = <<>>

CalculateMatchScore ==
    /\ pc = "ready"
    /\ call.op = "calculate_match_score"
    /\ \E out \in calculate_match_score(call.resume_text, call.jd_text) :
          /\ frame' = <<out.frame>>
          /\ result' = <<out.result>>
    /\ pc' = "returned"
    /\ UNCHANGED <<call, response, cleaned, recleaned, hard_skills>>

AnalyzeResume ==
    /\ pc = "ready"
    /\ call.op = "analyze_resume"
    /\ \E out \in analyze_resume(call.files, call.form) :
          /\ response' = <<out.response>>
          /\ frame' = out.frame
          /\ result' = out.response.body
    /\ pc' = "returned"
    /\ UNCHANGED <<call, cleaned, recleaned, hard_skills>>

CleanJobDescription ==
    /\ pc = "ready"
    /\ call.op = "clean_job_description"
    /\ cleaned' = <<clean_job_description(call.jd_text)>>
    /\ pc' = "cleaned"
    /\ UNCHANGED <<call, frame, result, response, recleaned, hard_skills>>

CleanAgain ==
    /\ pc = "cleaned"
    /\ recleaned' = <<clean_job_description(cleaned[1])>>
    /\ pc' = "returned"
    /\ UNCHANGED <<call, frame, result, response, cleaned, hard_skills>>

ExtractHardSkills ==
    /\ pc = "ready"
    /\ call.op = "extract_hard_skills"
    /\ hard_skills' = <<extract_hard_skills(call.jd_text)>>
    /\ pc' = "returned"
    /\ UNCHANGED <<call, frame, result, response, cleaned, recleaned>>

Next ==
    \/ CalculateMatchScore
    \/ AnalyzeResume
    \/ CleanJobDescription
    \/ CleanAgain
    \/ ExtractHardSkills

Spec == Init /\ [][Next]_vars

(***************************************************************************)
(* Properties.                                                             *)
(***************************************************************************)
\* calculate_match_score has run (called directly or by the handler)
Scored == frame # <<>> /\ result # <<>>

RecKinds == [i \in 1..Len(result[1].recommendations) |-> result[1].recommendations[i].kind]

HasRec(kind) == \E i \in 1..Len(result[1].recommendations) : result[1].recommendations[i].kind = kind

\* no fluff pattern matches the lower-cased text
NoFluff(text) == \A k \in 1..Len(fluff_patterns) : FluffStart(fluff_patterns[k], lower(text)) = 0

IdenticalTexts == Scored /\ call.op = "calculate_match_score" /\ call.resume_text = call.jd_text

\* C1: the matched and the missing keywords are disjoint, their union is the
\* job description's keyword set, matched = jd /\ resume and missing = jd \ resume;
\* the same holds of the hard skills.
C1_Partition ==
    Scored =>
        LET f == frame[1]
        IN /\ f.matched_keywords \cap f.missing_keywords = {}
           /\ f.matched_keywords \cup f.missing_keywords = f.jd_keywords
           /\ f.matched_keywords = f.jd_keywords \cap f.resume_keywords
           /\ f.missing_keywords = f.jd_keywords \ f.resume_keywords
           /\ f.matched_hard_skills \cap f.missing_hard_skills = {}
           /\ f.matched_hard_skills \cup f.missing_hard_skills = f.jd_hard_skills
           /\ f.matched_hard_skills = f.jd_hard_skills \cap f.resume_hard_skills
           /\ f.missing_hard_skills = f.jd_hard_skills \ f.resume_hard_skills

C1_Witness ==
    /\ Scored
    /\ frame[1].matched_keywords # {} /\ frame[1].missing_keywords # {}
    /\ frame[1].matched_hard_skills # {} /\ frame[1].missing_hard_skills # {}
    /\ frame[1].resume_keywords \ frame[1].jd_keywords # {}

\* C2 as stated: keywordScore is in [0,100] and is exactly 100 whenever the
\* resume keyword set is a superset of the job description's, the empty job
\* description keyword set included.
C2_Original ==
    Scored =>
        /\ result[1].keyword_score \in 0..100
        /\ frame[1].jd_keywords \subseteq frame[1].resume_keywords =>
              /\ result[1].keyword_score = 100
              /\ frame[1].keyword_score.num = 100 * frame[1].keyword_score.den

\* C2 amended: keywordScore is in [0,100]; it is exactly 100 whenever the job
\* description keyword set is non-empty and the resume keyword set is a
\* superset of it; it is 0 when the job description keyword set is empty.
C2_Amended ==
    Scored =>
        /\ result[1].keyword_score \in 0..100
        /\ frame[1].jd_keywords # {} /\ frame[1].jd_keywords \subseteq frame[1].resume_keywords =>
              /\ result[1].keyword_score = 100
              /\ frame[1].keyword_score.num = 100 * frame[1].keyword_score.den
        /\ frame[1].jd_keywords = {} =>
              result[1].keyword_score = 0 /\ frame[1].keyword_score.num = 0

C2_Witness ==
    /\ Scored
    /\ frame[1].jd_keywords # {}
    /\ frame[1].jd_keywords \subseteq frame[1].resume_keywords
    /\ frame[1].resume_keywords # frame[1].jd_keywords
    /\ result[1].keyword_score = 100

NoOverlapRecs ==
    ~HasRec("missing_hard_skills") /\ ~HasRec("keyword_advice") /\ ~HasRec("hard_skills_advice")

\* C3 as stated: identical resume and job description text, whatever the
\* text, gives overall_score 100, no missing keyword, no missing hard skill
\* and none of the overlap-triggered recommendations.
C3_Original ==
    IdenticalTexts =>
        /\ result[1].overall_score = 100
        /\ result[1].missing_keywords = <<>>
        /\ result[1].missing_hard_skills = <<>>
        /\ NoOverlapRecs

\* C3 amended: identical resume and job description text in which no fluff
\* pattern matches and which yields at least one keyword and at least one
\* hard skill gives keyword and hard-skill scores of 100, no missing keyword,
\* no missing hard skill, none of the overlap-triggered recommendations, and
\* overall_score 100, or 99 when rounding leaves the cosine just below 1.
C3_Amended ==
    (/\ IdenticalTexts
     /\ NoFluff(call.jd_text)
     /\ frame[1].jd_keywords # {}
     /\ frame[1].jd_hard_skills # {}) =>
        /\ result[1].keyword_score = 100
        /\ result[1].hard_skills_score = 100
        /\ result[1].overall_score \in {99, 100}
        /\ frame[1].coverage_score.num >= 100 * frame[1].coverage_score.den => result[1].overall_score = 100
        /\ result[1].missing_keywords = <<>>
        /\ result[1].missing_hard_skills = <<>>
        /\ NoOverlapRecs

C3_Witness ==
    /\ IdenticalTexts
    /\ NoFluff(call.jd_text)
    /\ frame[1].jd_keywords # {}
    /\ frame[1].jd_hard_skills # {}
    /\ call.jd_text # lower(call.jd_text)
    /\ result[1].overall_score = 100
    /\ result[1].missing_hard_skills = <<>>

\* C4: for the job description "We are committed to diversity. Requires
\* Python, AWS, and strong communication in a fast paced environment." and
\* the resume "Experienced in Python and Java development.", only the fluff
\* sentence is removed: the requirements sentence is kept, the job
\* description's hard skills include python and aws, the missing hard skills
\* are {aws}, the implicit keywords of "fast paced" are found, and both the
\* missing-hard-skills and the implicit-skills recommendations appear.
C4_FluffSentenceOnly ==
    (Scored /\ call.op = "calculate_match_score"
       /\ call.jd_text = ExampleJd /\ call.resume_text = ExampleResume) =>
        /\ Contains(<<"r","e","q","u","i","r","e","s"," ","p","y","t","h","o","n">>, frame[1].jd_cleaned)
        /\ ~Contains(<<"d","i","v","e","r","s","i","t","y">>, frame[1].jd_cleaned)
        /\ {<<"p","y","t","h","o","n">>, <<"a","w","s">>} \subseteq frame[1].jd_hard_skills
        /\ frame[1].missing_hard_skills = {<<"a","w","s">>}
        /\ {"prioritization", "time management", "adaptability"} \subseteq frame[1].jd_implicit
        /\ HasRec("missing_hard_skills")
        /\ HasRec("implicit_skills")

\* C5: fluff stripping is idempotent: cleaning a cleaned job description
\* changes nothing.
C5_Idempotent == recleaned # <<>> => recleaned[1] = cleaned[1]

C5_Witness ==
    /\ recleaned # <<>>
    /\ cleaned[1] # <<>>
    /\ Len(cleaned[1]) < Len(call.jd_text)
    /\ call.jd_text # lower(call.jd_text)
    /\ recleaned[1] = cleaned[1]

\* C6: an upload whose declared type is not application/pdf gets an error
\* response; calculate_match_score is not run on it and no score breakdown is
\* returned for it.
C6_ImageRejected ==
    (response # <<>> /\ call.files # <<>> /\ call.files[1].content_type # PdfType) =>
        /\ response[1].status # 200
        /\ response[1].body = <<>>
        /\ frame = <<>>

OptionalKind(cond, kind) == IF cond THEN <<kind>> ELSE <<>>

\* C7: the recommendations are, in this order, the missing-hard-skills line,
\* the repeated-phrases line, the implicit-skills line, the keyword advice
\* and the technical-skills advice, each present exactly when its trigger
\* holds; the missing-skills line never lists an empty set of skills.
C7_Recommendations ==
    Scored =>
        LET f == frame[1]
            recs == result[1].recommendations
        IN /\ RecKinds =
                OptionalKind(f.missing_hard_skills # {}, "missing_hard_skills")
                \o OptionalKind(\E k \in Range(f.jd_keyword_seq) : Count(f.jd_keyword_seq, k) >= 2,
                                "repeated_phrases")
                \o OptionalKind(f.jd_implicit # {}, "implicit_skills")
                \o OptionalKind(100 * Cardinality(f.matched_keywords) < 50 * Cardinality(f.jd_keywords)
                                    \/ f.jd_keywords = {}, "keyword_advice")
                \o OptionalKind(100 * Cardinality(f.matched_hard_skills) < 50 * Cardinality(f.jd_hard_skills)
                                    \/ f.jd_hard_skills = {}, "hard_skills_advice")
           /\ \A i \in 1..Len(recs) :
                 recs[i].kind = "missing_hard_skills" =>
                    /\ recs[i].items # {}
                    /\ recs[i].items \subseteq f.missing_hard_skills
                    /\ recs[i].count = Cardinality(recs[i].items)

C7_Witness ==
    /\ Scored
    /\ RecKinds = <<"repeated_phrases", "implicit_skills">>
    /\ frame[1].jd_hard_skills # {}

\* the exact value of 10 * (0.4 * kw + 0.4 * hs + 0.2 * cov), as a fraction
WeightedSum(f) ==
    Frac(4 * f.keyword_score.num * f.hard_skills_score.den * f.coverage_score.den
           + 4 * f.hard_skills_score.num * f.keyword_score.den * f.coverage_score.den
           + 2 * f.coverage_score.num * f.keyword_score.den * f.hard_skills_score.den,
         f.keyword_score.den * f.hard_skills_score.den * f.coverage_score.den)

\* C8: the four scores of the result are integers in [0,100]; the component
\* scores are the truncated percentages, 0 for an empty job description
\* keyword or skill set; overall_score is the floor of
\* 0.4 * keywordScore + 0.4 * hardSkillsScore + 0.2 * coverageScore.
C8_Scores ==
    Scored =>
        LET f == frame[1]
            r == result[1]
            w == WeightedSum(f)
        IN /\ {r.overall_score, r.keyword_score, r.hard_skills_score, r.coverage_score} \subseteq 0..100
           /\ r.keyword_score = IF f.jd_keywords = {} THEN 0
                                ELSE (100 * Cardinality(f.matched_keywords)) \div Cardinality(f.jd_keywords)
           /\ r.hard_skills_score = IF f.jd_hard_skills = {} THEN 0
                                    ELSE (100 * Cardinality(f.matched_hard_skills)) \div Cardinality(f.jd_hard_skills)
           /\ r.coverage_score * f.coverage_score.den <= f.coverage_score.num
           /\ f.coverage_score.num < (r.coverage_score + 1) * f.coverage_score.den
           /\ 10 * r.overall_score * w.den <= w.num
           /\ w.num < 10 * (r.overall_score + 1) * w.den

\* a percentage whose fraction is a half or more: rounding would differ
C8_Witness ==
    /\ Scored
    /\ frame[1].jd_keywords # {}
    /\ 2 * ((100 * Cardinality(frame[1].matched_keywords)) % Cardinality(frame[1].jd_keywords))
          >= Cardinality(frame[1].jd_keywords)
    /\ WeightedSum(frame[1]).num % (10 * WeightedSum(frame[1]).den) # 0
    /\ result[1].overall_score > 0

\* C9: the repeated-phrases line lists min(3, number of repeated phrases)
\* phrases of the cleaned job description, each occurring at least twice, in
\* non-increasing order of count; no phrase left out occurs more often than
\* a listed one; phrases of equal count are ordered, and cut off, by their
\* first occurrence in the extract_keywords sequence.
C9_TopRepeated ==
    Scored =>
        LET seq      == frame[1].jd_keyword_seq
            recs     == result[1].recommendations
            repeated == {k \in Range(seq) : Count(seq, k) >= 2}
            Before(a, b) == \/ Count(seq, a) > Count(seq, b)
                            \/ Count(seq, a) = Count(seq, b) /\ FirstIndex(seq, a) < FirstIndex(seq, b)
        IN /\ repeated = {} => ~HasRec("repeated_phrases")
           /\ repeated # {} => HasRec("repeated_phrases")
           /\ \A n \in 1..Len(recs) :
                 recs[n].kind = "repeated_phrases" =>
                    LET listed == recs[n].items
                    IN /\ Len(listed) = Min(3, Cardinality(repeated))
                       /\ Range(listed) \subseteq repeated
                       /\ \A i, j \in 1..Len(listed) : i < j => Before(listed[i], listed[j])
                       /\ \A u \in repeated \ Range(listed) :
                             \A i \in 1..Len(listed) : Before(listed[i], u)

\* more than three repeated phrases; the sort moved a later phrase of higher
\* count to the front; a tie is cut off, and is not in alphabetical order
C9_Witness ==
    /\ Scored
    /\ \E n \in 1..Len(result[1].recommendations) :
          LET rec == result[1].recommendations[n]
              seq == frame[1].jd_keyword_seq
          IN /\ rec.kind = "repeated_phrases"
             /\ Len(rec.items) = 3
             /\ Count(seq, rec.items[1]) > Count(seq, rec.items[2])
             /\ FirstIndex(seq, rec.items[1]) > FirstIndex(seq, rec.items[2])
             /\ Count(seq, rec.items[2]) = Count(seq, rec.items[3])
             /\ StrLess(rec.items[3], rec.items[2])
             /\ \E u \in Range(seq) \ Range(rec.items) : Count(seq, u) = Count(seq, rec.items[3])

\* a word.js token
IsJsToken(s) ==
    /\ Len(s) >= 4
    /\ SubSeq(s, Len(s) - 2, Len(s)) = <<".","j","s">>
    /\ \A i \in 1..(Len(s) - 3) : s[i] \in WordSet

ResultSkills == Range(result[1].matched_hard_skills) \cup Range(result[1].missing_hard_skills)

\* C10: every matched or missing hard skill of a result is a lower-case
\* string, a keyword of the fixed vocabulary or a word.js token; no two of
\* them differ in case only.
C10_LowerCaseSkills ==
    Scored =>
        /\ \A s \in ResultSkills :
              /\ \A i \in 1..Len(s) : s[i] \notin UpperSet
              /\ s \in Range(tech_keywords) \/ IsJsToken(s)
        /\ \A s1, s2 \in ResultSkills : lower(s1) = lower(s2) => s1 = s2

\* a job description with an acronym, a capitalized word and a .js token
C10_Witness ==
    /\ Scored
    /\ call.op = "calculate_match_score"
    /\ Contains(<<"A","W","S">>, call.jd_text) /\ Contains(<<"N","o","d","e",".","j","s">>, call.jd_text)
    /\ Contains(<<"C","+","+">>, call.jd_text) /\ Contains(<<"C","#">>, call.jd_text)
    /\ {<<"a","w","s">>, <<"n","o","d","e",".","j","s">>, <<"p","y","t","h","o","n">>} \subseteq ResultSkills

\* extract_hard_skills called on mixed-case text returns both case variants
DirectCaseVariants ==
    /\ hard_skills # <<>>
    /\ {<<"A","W","S">>, <<"a","w","s">>, <<"N","o","d","e",".","j","s">>, <<"n","o","d","e">>} \subseteq hard_skills[1]

=============================================================================
